---------------------------- MODULE Spec2Model ----------------------------
(***************************************************************************)
(* A model of examples/mindspore_qnn_for_nlp.ipynb: the quantum CBOW word  *)
(* embedding notebook.  The data preprocessing cells (word dictionary,     *)
(* sliding-window samples, binary angle encoding) are modelled by the      *)
(* specification Spec; the circuit construction cells by SpecCircuit; the  *)
(* training loop by SpecTrain.                                             *)
(*                                                                         *)
(* Python strings are sequences of one-character strings, Python lists are *)
(* sequences, a Python dict is a function (or, where insertion order is    *)
(* observable, a sequence of <<key, value>> pairs).  An angle k*pi is the   *)
(* pair <<k, "pi">>.                                                        *)
(***************************************************************************)
EXTENDS Integers, Sequences, FiniteSets, TLC

VARIABLES
    pc,          \* position of the preprocessing script
    corpus,      \* the corpus string handed to GenerateWordDictAndSample
    window,      \* the window argument
    word_dict,   \* word -> id
    sampling,    \* list of [around, center]
    data_x,      \* feature rows returned by GenerateTrainData
    data_y,      \* labels returned by GenerateTrainData
    raised,      \* the exception that ended the script, or "none"
    call,        \* circuit cells: the call last made
    result,      \* circuit cells: what that call returned
    tpc,         \* training cell: the statement about to run
    train_x,     \* training cell: the feature rows
    train_y,     \* training cell: the labels
    epoch_it,    \* items the iterator of range(n_epochs) has yielded
    loop_e,      \* the loop variable e
    zip_it,      \* items the iterator of zip(train_x, train_y) has yielded
    loop_x,      \* the loop variable x
    loop_y,      \* the loop variable y
    label_t,     \* the tensor label
    encoder_value, \* the value net's encoder holds
    los,         \* the loss grad_fn returned
    grads,       \* the gradients grad_fn returned
    updates,     \* optimizer updates applied to the parameters
    loss,        \* the epoch's sum of losses, as the list of its terms
    log,         \* the lines printed
    losses       \* the list losses

trainVars ==
    <<tpc, train_x, train_y, epoch_it, loop_e, zip_it, loop_x, loop_y, label_t, encoder_value, los,
      grads, updates, loss, log, losses>>

vars ==
    <<pc, corpus, window, word_dict, sampling, data_x, data_y, raised, call, result,
      trainVars>>

\* Before they are assigned, e and y are -1, x, label, the encoder value and
\* loss are empty, and los and grads were computed from nothing.
NoLoss == [encoder |-> <<>>, label |-> <<>>, params |-> -1]

\* The training cell has not run.
TrainIdle ==
    /\ tpc = "idle"
    /\ train_x = <<>>
    /\ train_y = <<>>
    /\ epoch_it = 0
    /\ loop_e = -1
    /\ zip_it = 0
    /\ loop_x = <<>>
    /\ loop_y = -1
    /\ label_t = <<>>
    /\ encoder_value = <<>>
    /\ los = NoLoss
    /\ grads = NoLoss
    /\ updates = 0
    /\ loss = <<>>
    /\ log = <<>>
    /\ losses = <<>>

dataVars == <<pc, corpus, window, word_dict, sampling, data_x, data_y, raised>>

circVars == <<call, result>>

(***************************************************************************)
(* Bounds of the model.                                                    *)
(***************************************************************************)
MaxWords == 5

MaxCorpusLen == 5

MaxWindow == 2

MaxQubits == 5

MaxLayers == 2

MaxDims == 8

MaxEmbedding == 5

MaxSamples == 2

(***************************************************************************)
(* Small helpers.                                                          *)
(***************************************************************************)
Max(a, b) == IF a >= b THEN a ELSE b

Min(a, b) == IF a <= b THEN a ELSE b

Range(s) == {s[k] : k \in DOMAIN s}

RECURSIVE Pow2(_)
Pow2(k) == IF k <= 0 THEN 1 ELSE 2 * Pow2(k - 1)

\* Bit j of a non-negative integer.
Bit(x, j) == (x \div Pow2(j)) % 2

\* Python's range(a, b) as a list.
PyRange(a, b) == [k \in 1..Max(b - a, 0) |-> a + k - 1]

RECURSIVE Concat(_)
Concat(ss) == IF ss = <<>> THEN <<>> ELSE Head(ss) \o Concat(Tail(ss))

(***************************************************************************)
(* Characters.  CodePointOrder lists the characters the corpora use in     *)
(* ascending code point order, which is the order Python compares strings  *)
(* in.                                                                     *)
(***************************************************************************)
CodePointOrder ==
    << "\n", " ", "I", "a", "b", "c", "e", "g", "i", "l", "n", "o", "p", "r",
       "s", "t", "u", "v" >>

Ord(c) == CHOOSE k \in DOMAIN CodePointOrder : CodePointOrder[k] = c

Whitespace == {" ", "\n"}

\* Python's str < str: lexicographic by code point, a proper prefix is smaller.
RECURSIVE StrLess(_, _)
StrLess(a, b) ==
    IF b = <<>> THEN FALSE
    ELSE IF a = <<>> THEN TRUE
    ELSE IF Head(a) # Head(b) THEN Ord(Head(a)) < Ord(Head(b))
    ELSE StrLess(Tail(a), Tail(b))

\* str.split() with no argument: runs of whitespace separate, no empty tokens.
RECURSIVE SplitAcc(_, _, _, _)
SplitAcc(s, i, cur, acc) ==
    IF i > Len(s)
    THEN IF cur = <<>> THEN acc ELSE Append(acc, cur)
    ELSE IF s[i] \in Whitespace
         THEN SplitAcc(s, i + 1, <<>>, IF cur = <<>> THEN acc ELSE Append(acc, cur))
         ELSE SplitAcc(s, i + 1, Append(cur, s[i]), acc)

Split(s) == SplitAcc(s, 1, <<>>, <<>>)

\* list.sort() of list(set(xs)): whatever order the set iterates in, the sorted
\* list is the ascending list of its elements.
RECURSIVE SortSet(_)
SortSet(S) ==
    IF S = {} THEN <<>>
    ELSE LET m == CHOOSE x \in S : \A y \in S \ {x} : StrLess(x, y)
         IN  <<m>> \o SortSet(S \ {m})

\* A slice l[a:b] with step 1.
SliceIndex(i, n) == IF i < 0 THEN Max(i + n, 0) ELSE Min(i, n)

PySlice(l, a, b) ==
    LET s == SliceIndex(a, Len(l))
        e == SliceIndex(b, Len(l))
    IN  IF s >= e THEN <<>> ELSE SubSeq(l, s + 1, e)

\* A slice l[a:b:-1].
RevSliceIndex(i, n) == IF i < 0 THEN Max(i + n, -1) ELSE Min(i, n - 1)

PySliceRev(l, a, b) ==
    LET s == RevSliceIndex(a, Len(l))
        e == RevSliceIndex(b, Len(l))
    IN  [k \in 1..Max(s - e, 0) |-> l[s - k + 2]]

\* l[i] is defined for -len <= i < len and raises IndexError elsewhere.
InRange(l, i) == -Len(l) <= i /\ i < Len(l)

GetItem(l, i) == IF i < 0 THEN l[Len(l) + i + 1] ELSE l[i + 1]

(***************************************************************************)
(* Numbers as text.                                                        *)
(***************************************************************************)
Digits == << "0", "1", "2", "3", "4", "5", "6", "7", "8", "9" >>

\* int(c) of a one-digit string.
IntOf(c) == (CHOOSE k \in DOMAIN Digits : Digits[k] = c) - 1

\* str(i) of a non-negative integer.
RECURSIVE Str(_)
Str(i) == IF i < 10 THEN <<Digits[i + 1]>> ELSE Str(i \div 10) \o <<Digits[(i % 10) + 1]>>

\* bin(i) of a non-negative integer: "0b" and the digits, most significant first.
RECURSIVE BinDigits(_)
BinDigits(i) ==
    IF i < 2 THEN <<Digits[i + 1]>> ELSE BinDigits(i \div 2) \o <<Digits[(i % 2) + 1]>>

Bin(i) == <<"0", "b">> \o BinDigits(i)

\* str.ljust(width, fill).
LJust(s, width, fill) ==
    IF Len(s) >= width THEN s ELSE s \o [k \in 1..(width - Len(s)) |-> fill]

\* int(np.ceil(np.log2(n))) for n >= 1.
RECURSIVE CeilLog2(_)
CeilLog2(n) == IF n <= 1 THEN 0 ELSE 1 + CeilLog2((n + 1) \div 2)

\* int(i) * np.pi
TimesPi(k) == <<k, "pi">>

(***************************************************************************)
(* GenerateWordDictAndSample                                               *)
(***************************************************************************)
\* Mutant of WordSet: the distinct words in order of first occurrence, the
\* sort forgotten.
RECURSIVE FirstOccurrences(_)
FirstOccurrences(l) ==
    IF l = <<>> THEN <<>>
    ELSE <<Head(l)>> \o FirstOccurrences(SelectSeq(Tail(l), LAMBDA x : x # Head(l)))

WordSetUnsorted(all_words) == FirstOccurrences(all_words)

WordSet(all_words) == SortSet(Range(all_words))

\* {w: i for i, w in enumerate(word_set)}: a later entry of a key wins.
WordDict(word_set) ==
    [w \in Range(word_set) |->
        (CHOOSE k \in DOMAIN word_set :
            word_set[k] = w /\ \A j \in DOMAIN word_set : word_set[j] = w => j <= k) - 1]

\* Mutant of SampleIndices: the slice all_words[window:], its end not cut.
SampleIndicesToEnd(all_words, win) ==
    PyRange(0, Len(PySlice(all_words, win, Len(all_words))))

\* The indices the outer loop runs over: enumerate(all_words[window:-window]).
SampleIndices(all_words, win) ==
    PyRange(0, Len(PySlice(all_words, win, -win)))

\* Mutant of AroundPositions: the center position is not skipped.
AroundPositionsWithCenter(index, win) == PyRange(index, index + 2 * win + 1)

\* The positions the inner loop appends to around.
AroundPositions(index, win) ==
    SelectSeq(PyRange(index, index + 2 * win + 1), LAMBDA i : i # index + win)

CenterPosition(index, win) == index + win

Around(all_words, index, win) ==
    LET ps == AroundPositions(index, win)
    IN  [k \in DOMAIN ps |-> GetItem(all_words, ps[k])]

Sampling(all_words, win) ==
    LET idx == SampleIndices(all_words, win)
    IN  [k \in DOMAIN idx |->
            << Around(all_words, idx[k], win),
               GetItem(all_words, CenterPosition(idx[k], win)) >>]

\* Every all_words[i] the loops evaluate is inside the list.
ReadsInRange(all_words, win) ==
    LET idx == SampleIndices(all_words, win)
    IN  \A k \in DOMAIN idx :
            /\ InRange(all_words, CenterPosition(idx[k], win))
            /\ \A p \in Range(AroundPositions(idx[k], win)) : InRange(all_words, p)

GenerateWordDictAndSample ==
    /\ pc = "start"
    /\ LET all_words == Split(corpus)
       IN  IF ReadsInRange(all_words, window)
           THEN /\ word_dict' = WordDict(WordSet(all_words))
                /\ sampling' = Sampling(all_words, window)
                /\ pc' = "sampled"
                /\ raised' = "none"
           ELSE /\ raised' = "IndexError"
                /\ pc' = "raised"
                /\ UNCHANGED <<word_dict, sampling>>
    /\ UNCHANGED <<corpus, window, data_x, data_y>>
    /\ UNCHANGED circVars
    /\ UNCHANGED trainVars

(***************************************************************************)
(* GenerateTrainData                                                       *)
(***************************************************************************)
MaxValue(d) == CHOOSE m \in Range(d) : \A v \in Range(d) : v <= m

TrainQubits(d) == CeilLog2(1 + MaxValue(d))

\* Mutant of LabelBin: the digits are not reversed (most significant first).
LabelBinMsbFirst(label, n_qubits) ==
    LJust(PySlice(Bin(label), 2, Len(Bin(label))), n_qubits, "0")

LabelBin(label, n_qubits) == LJust(PySliceRev(Bin(label), -1, 1), n_qubits, "0")

LabelArray(label_bin) == [k \in DOMAIN label_bin |-> TimesPi(IntOf(label_bin[k]))]

TrainRow(around, d, n_qubits) ==
    Concat([k \in DOMAIN around |-> LabelArray(LabelBin(d[around[k]], n_qubits))])

TrainX(sample, d) ==
    [k \in DOMAIN sample |-> TrainRow(sample[k][1], d, TrainQubits(d))]

TrainY(sample, d) == [k \in DOMAIN sample |-> d[sample[k][2]]]

GenerateTrainData ==
    /\ pc = "sampled"
    /\ IF DOMAIN word_dict = {}
       THEN \* max() of an empty sequence
            /\ raised' = "ValueError"
            /\ pc' = "raised"
            /\ UNCHANGED <<data_x, data_y>>
       ELSE /\ data_x' = TrainX(sampling, word_dict)
            /\ data_y' = TrainY(sampling, word_dict)
            /\ pc' = "trained"
            /\ UNCHANGED raised
    /\ UNCHANGED <<corpus, window, word_dict, sampling>>
    /\ UNCHANGED circVars
    /\ UNCHANGED trainVars

(***************************************************************************)
(* Gates and circuits.  A gate is a record: its name, its parameter name   *)
(* (empty when it has none), its object and control qubits, whether its    *)
(* parameter is an encoder or an ansatz parameter, and whether a gradient  *)
(* is taken with respect to it.  A circuit is the list of its gates.       *)
(***************************************************************************)
Gate(name, param, obj, ctrl) ==
    [name |-> name, param |-> param, obj |-> obj, ctrl |-> ctrl,
     role |-> "none", requires_grad |-> param # <<>>]

\* RX(param).on(i) and RY(param).on(i)
RX(param, i) == Gate("RX", param, <<i>>, <<>>)

RY(param, i) == Gate("RY", param, <<i>>, <<>>)

\* X(obj, ctrl)
X(obj, ctrl) == Gate("X", <<>>, <<obj>>, <<ctrl>>)

\* UN(H, n_qubits): a Hadamard gate on every qubit.
UN_H(n_qubits) ==
    LET r == PyRange(0, n_qubits)
    IN  [k \in DOMAIN r |-> Gate("H", <<>>, <<r[k]>>, <<>>)]

AsEncoder(circ) == [k \in DOMAIN circ |-> [circ[k] EXCEPT !.role = "encoder"]]

AsAnsatz(circ) == [k \in DOMAIN circ |-> [circ[k] EXCEPT !.role = "ansatz"]]

NoGrad(circ) == [k \in DOMAIN circ |-> [circ[k] EXCEPT !.requires_grad = FALSE]]

\* circ.params_name: the parameter names in gate order.
ParamsName(circ) ==
    LET ps == SelectSeq(circ, LAMBDA g : g.param # <<>>)
    IN  [k \in DOMAIN ps |-> ps[k].param]

(***************************************************************************)
(* GenerateEncoderCircuit                                                  *)
(***************************************************************************)
\* Mutant of EncoderPrefix: the '_' is appended whatever the prefix is.
EncoderPrefixAlways(prefix) == prefix \o <<"_">>

EncoderPrefix(prefix) ==
    IF prefix # <<>> /\ GetItem(prefix, -1) # "_" THEN prefix \o <<"_">> ELSE prefix

GenerateEncoderCircuit(n_qubits, prefix) ==
    LET P == EncoderPrefix(prefix)
        r == PyRange(0, n_qubits)
    IN  AsEncoder([k \in DOMAIN r |-> RX(P \o Str(r[k]), r[k])])

(***************************************************************************)
(* The encoder verification cell                                           *)
(***************************************************************************)
\* dict(zip(keys, values)): pairs up to the shorter list, a later pair of a key
\* wins.
ZipDict(keys, values) ==
    LET m == Min(Len(keys), Len(values))
    IN  [x \in {keys[k] : k \in 1..m} |->
            values[CHOOSE k \in 1..m :
                keys[k] = x /\ \A j \in 1..m : keys[j] = x => j <= k]]

\* One RX gate on a basis state: a rotation by an odd multiple of pi flips the
\* object qubit, a rotation by an even multiple leaves it; qubit j has weight 2^j.
ApplyRX(index, g, pr) ==
    LET j == g.obj[1]
        k == pr[g.param][1]
    IN  IF k % 2 = 0 THEN index
        ELSE IF Bit(index, j) = 0 THEN index + Pow2(j) ELSE index - Pow2(j)

\* np.argmax of the amplitudes of circ.get_qs(pr) for a circuit of RX gates.
RECURSIVE StateIndex(_, _, _)
StateIndex(circ, pr, index) ==
    IF circ = <<>> THEN index
    ELSE StateIndex(Tail(circ), pr, ApplyRX(index, Head(circ), pr))

EncoderCell(n_qubits, label) ==
    LET label_bin == LabelBin(label, n_qubits)
        label_array == LabelArray(label_bin)
        encoder == GenerateEncoderCircuit(n_qubits, <<"e">>)
        encoder_params_names == ParamsName(encoder)
    IN  [label_bin |-> label_bin,
         label_array |-> label_array,
         encoder_params_names |-> encoder_params_names,
         label_in_state |->
            StateIndex(encoder, ZipDict(encoder_params_names, label_array), 0)]

(***************************************************************************)
(* GenerateAnsatzCircuit                                                   *)
(***************************************************************************)
\* Python's range(a, b, step) for step > 0.
PyRangeStep(a, b, step) ==
    [k \in 1..Max((b - a + step - 1) \div step, 0) |-> a + (k - 1) * step]

AnsatzPrefix(prefix) ==
    IF prefix # <<>> /\ GetItem(prefix, -1) # "_" THEN prefix \o <<"_">> ELSE prefix

RYLayer(n_qubits, l, P) ==
    LET r == PyRange(0, n_qubits)
    IN  [k \in DOMAIN r |-> RY(P \o Str(l) \o <<"_">> \o Str(r[k]), r[k])]

\* Mutant of CXStart: every layer starts its controlled-X gates at qubit 0.
CXStartZero(l) == 0

CXStart(l) == l % 2

CXLayer(n_qubits, l) ==
    LET r == SelectSeq(PyRangeStep(CXStart(l), n_qubits, 2),
                       LAMBDA i : i < n_qubits /\ i + 1 < n_qubits)
    IN  [k \in DOMAIN r |-> X(r[k] + 1, r[k])]

GenerateAnsatzCircuit(n_qubits, layers, prefix) ==
    LET P == AnsatzPrefix(prefix)
        ls == PyRange(0, layers)
    IN  AsAnsatz(Concat([k \in DOMAIN ls |->
            RYLayer(n_qubits, ls[k], P) \o CXLayer(n_qubits, ls[k])]))

(***************************************************************************)
(* GenerateEmbeddingHamiltonian                                            *)
(***************************************************************************)
\* str.strip(): leading and trailing whitespace removed.
RECURSIVE LStrip(_)
LStrip(s) == IF s # <<>> /\ Head(s) \in Whitespace THEN LStrip(Tail(s)) ELSE s

RECURSIVE RStrip(_)
RStrip(s) ==
    IF s # <<>> /\ s[Len(s)] \in Whitespace THEN RStrip(SubSeq(s, 1, Len(s) - 1)) ELSE s

Strip(s) == RStrip(LStrip(s))

\* d[key] = value on a dict kept as its list of <<key, value>> in insertion
\* order: a present key keeps its place.
DictSet(d, key, value) ==
    IF \E k \in DOMAIN d : d[k][1] = key
    THEN [k \in DOMAIN d |-> IF d[k][1] = key THEN <<key, value>> ELSE d[k]]
    ELSE Append(d, <<key, value>>)

\* Mutant of HamDigits: the digits of i instead of i + 1.
HamDigitsOfIndex(i) == PySliceRev(Bin(i), -1, 1)

\* The digits the inner loop enumerates for index i.
HamDigits(i) == PySliceRev(Bin(i + 1), -1, 1)

RECURSIVE HamString(_, _)
HamString(digits, j) ==
    IF j >= Len(digits) THEN <<>>
    ELSE (IF GetItem(digits, j) = "1" THEN <<"Z">> \o Str(j) \o <<" ">> ELSE <<>>)
         \o HamString(digits, j + 1)

RECURSIVE HamsFrom(_, _, _)
HamsFrom(hams, i, dims) ==
    IF i >= dims THEN hams
    ELSE HamsFrom(DictSet(hams, Strip(HamString(HamDigits(i), 0)), "1.0"), i + 1, dims)

GenerateEmbeddingHamiltonian(dims, n_qubits) == HamsFrom(<<>>, 0, dims)

(***************************************************************************)
(* QEmbedding                                                              *)
(***************************************************************************)
EmbeddingQubits(num_embedding) == CeilLog2(num_embedding)

\* Mutant of EmbeddingBlock: the ansatz is added before the encoder.
EmbeddingBlockAnsatzFirst(n_qubits, layers, w) ==
    GenerateAnsatzCircuit(n_qubits, layers, <<"A", "n", "s", "a", "t", "z", "_">> \o Str(w))
    \o NoGrad(GenerateEncoderCircuit(n_qubits,
                <<"E", "n", "c", "o", "d", "e", "r", "_">> \o Str(w)))

\* One pass of the loop body: what it adds to circ.
EmbeddingBlock(n_qubits, layers, w) ==
    LET encoder == GenerateEncoderCircuit(n_qubits,
                        <<"E", "n", "c", "o", "d", "e", "r", "_">> \o Str(w))
        ansatz == GenerateAnsatzCircuit(n_qubits, layers,
                        <<"A", "n", "s", "a", "t", "z", "_">> \o Str(w))
    IN  NoGrad(encoder) \o ansatz

QEmbedding(num_embedding, embedding_dim, win, layers) ==
    LET n_qubits == EmbeddingQubits(num_embedding)
        ws == PyRange(0, 2 * win)
    IN  UN_H(n_qubits)
        \o Concat([k \in DOMAIN ws |-> EmbeddingBlock(n_qubits, layers, ws[k])])

(***************************************************************************)
(* The corpora: sentences over the notebook's five words, and short raw    *)
(* strings with arbitrary whitespace.                                      *)
(***************************************************************************)
Vocabulary ==
    { <<"I">>,
      <<"l", "o", "v", "e">>,
      <<"n", "a", "t", "u", "r", "a", "l">>,
      <<"l", "a", "n", "g", "u", "a", "g", "e">>,
      <<"p", "r", "o", "c", "e", "s", "s", "i", "n", "g">> }

RawChars == {" ", "\n", "a", "b"}

SeqsUpTo(S, n) == UNION {[1..k -> S] : k \in 0..n}

\* ' '.join(words)
RECURSIVE Join(_)
Join(words) ==
    IF words = <<>> THEN <<>>
    ELSE IF Len(words) = 1 THEN words[1]
    ELSE words[1] \o <<" ">> \o Join(Tail(words))

Corpora ==
    {Join(ws) : ws \in SeqsUpTo(Vocabulary, MaxWords)} \cup SeqsUpTo(RawChars, MaxCorpusLen)

NoCall == [fn |-> "none"]

Init ==
    /\ pc = "start"
    /\ corpus \in Corpora
    /\ window \in 0..MaxWindow
    /\ word_dict = <<>>
    /\ sampling = <<>>
    /\ data_x = <<>>
    /\ data_y = <<>>
    /\ raised = "none"
    /\ call = NoCall
    /\ result = <<>>
    /\ TrainIdle

Next ==
    \/ GenerateWordDictAndSample
    \/ GenerateTrainData

Spec == Init /\ [][Next]_vars

(***************************************************************************)
(* The circuit cells: each action is one call of a construction function,  *)
(* with its arguments and what it returned.  The functions are pure, so a  *)
(* behaviour makes one call.                                               *)
(***************************************************************************)
Prefixes == { <<>>, <<"e">>, <<"e", "_">>, <<"_">>, <<"a">> }

InitCircuit ==
    /\ pc = "circuit"
    /\ corpus = <<>>
    /\ window = 0
    /\ word_dict = <<>>
    /\ sampling = <<>>
    /\ data_x = <<>>
    /\ data_y = <<>>
    /\ raised = "none"
    /\ call = NoCall
    /\ result = <<>>
    /\ TrainIdle

CallGenerateEncoderCircuit ==
    \E n_qubits \in 0..MaxQubits, prefix \in Prefixes :
        /\ call = NoCall
        /\ call' = [fn |-> "GenerateEncoderCircuit", n_qubits |-> n_qubits,
                    prefix |-> prefix]
        /\ result' = GenerateEncoderCircuit(n_qubits, prefix)
        /\ UNCHANGED dataVars
        /\ UNCHANGED trainVars

RunEncoderCell ==
    \E n_qubits \in 0..MaxQubits, label \in 0..(Pow2(MaxQubits) - 1) :
        /\ call = NoCall
        /\ call' = [fn |-> "EncoderCell", n_qubits |-> n_qubits, label |-> label]
        /\ result' = EncoderCell(n_qubits, label)
        /\ UNCHANGED dataVars
        /\ UNCHANGED trainVars

CallGenerateAnsatzCircuit ==
    \E n_qubits \in 0..MaxQubits, layers \in 0..MaxLayers, prefix \in Prefixes :
        /\ call = NoCall
        /\ call' = [fn |-> "GenerateAnsatzCircuit", n_qubits |-> n_qubits,
                    layers |-> layers, prefix |-> prefix]
        /\ result' = GenerateAnsatzCircuit(n_qubits, layers, prefix)
        /\ UNCHANGED dataVars
        /\ UNCHANGED trainVars

CallGenerateEmbeddingHamiltonian ==
    \E dims \in 0..MaxDims, n_qubits \in 0..MaxQubits :
        /\ call = NoCall
        /\ call' = [fn |-> "GenerateEmbeddingHamiltonian", dims |-> dims,
                    n_qubits |-> n_qubits]
        /\ result' = GenerateEmbeddingHamiltonian(dims, n_qubits)
        /\ UNCHANGED dataVars
        /\ UNCHANGED trainVars

CallQEmbedding ==
    \E num_embedding \in 1..MaxEmbedding, embedding_dim \in 1..MaxDims,
       win \in 0..MaxWindow, layers \in 0..MaxLayers :
        /\ call = NoCall
        /\ call' = [fn |-> "QEmbedding", num_embedding |-> num_embedding,
                    embedding_dim |-> embedding_dim, window |-> win, layers |-> layers]
        /\ result' = QEmbedding(num_embedding, embedding_dim, win, layers)
        /\ UNCHANGED dataVars
        /\ UNCHANGED trainVars

NextCircuit ==
    \/ CallGenerateEncoderCircuit
    \/ RunEncoderCell
    \/ CallGenerateAnsatzCircuit
    \/ CallGenerateEmbeddingHamiltonian
    \/ CallQEmbedding

SpecCircuit == InitCircuit /\ [][NextCircuit]_vars

(***************************************************************************)
(* The training cell.  One action per statement of the loop.  A loss is    *)
(* kept as what it was computed from: the encoder value, the label and the *)
(* number of updates the parameters had received; the epoch's loss is the  *)
(* list of the terms added to it.                                          *)
(***************************************************************************)
n_epochs == 30

\* Mutant of EpochRange: the epochs start at 1.
EpochRangeFromOne == PyRange(1, n_epochs)

EpochRange == PyRange(0, n_epochs)

\* Mutant of BodyOrder: the gradient is evaluated before the encoder is set.
BodyOrderGradFirst == <<"label", "grad", "set_encoder", "optimizer", "accumulate">>

\* The statements of the inner loop body, in program order.
BodyOrder == <<"label", "set_encoder", "grad", "optimizer", "accumulate">>

\* The statement after s: the next of the body, or the loop head again.
StepAfter(s) ==
    LET k == CHOOSE j \in DOMAIN BodyOrder : BodyOrder[j] = s
    IN  IF k = Len(BodyOrder) THEN "sample" ELSE BodyOrder[k + 1]

\* f'{e:02d}'
Format02d(n) == [k \in 1..Max(2 - Len(Str(n)), 0) |-> "0"] \o Str(n)

\* loss.numpy() / len(train_x)
MeanLoss(terms, n) == [sum |-> terms, n |-> n]

TrainRows == { <<TimesPi(0), TimesPi(1)>>, <<TimesPi(1), TimesPi(0)>> }

TrainLabels == {0, 1}

InitTrain ==
    /\ pc = "train"
    /\ corpus = <<>>
    /\ window = 0
    /\ word_dict = <<>>
    /\ sampling = <<>>
    /\ data_x = <<>>
    /\ data_y = <<>>
    /\ raised = "none"
    /\ call = NoCall
    /\ result = <<>>
    /\ tpc = "epoch"
    /\ train_x \in SeqsUpTo(TrainRows, MaxSamples)
    /\ train_y \in [DOMAIN train_x -> TrainLabels]
    /\ epoch_it = 0
    /\ loop_e = -1
    /\ zip_it = 0
    /\ loop_x = <<>>
    /\ loop_y = -1
    /\ label_t = <<>>
    /\ encoder_value = <<>>
    /\ los = NoLoss
    /\ grads = NoLoss
    /\ updates = 0
    /\ loss = <<>>
    /\ log = <<>>
    /\ losses = <<>>

\* for e in range(n_epochs): loss = ms.Tensor(0.0); the inner for makes its zip.
EpochLoop ==
    /\ tpc = "epoch"
    /\ IF epoch_it < Len(EpochRange)
       THEN /\ loop_e' = EpochRange[epoch_it + 1]
            /\ epoch_it' = epoch_it + 1
            /\ loss' = <<>>
            /\ zip_it' = 0
            /\ tpc' = "sample"
       ELSE /\ tpc' = "done"
            /\ UNCHANGED <<loop_e, epoch_it, loss, zip_it>>
    /\ UNCHANGED <<train_x, train_y, loop_x, loop_y, label_t, encoder_value, los, grads,
                   updates, log, losses>>
    /\ UNCHANGED <<dataVars, circVars>>

\* for x, y in zip(train_x, train_y)
SampleLoop ==
    /\ tpc = "sample"
    /\ IF zip_it < Min(Len(train_x), Len(train_y))
       THEN /\ loop_x' = train_x[zip_it + 1]
            /\ loop_y' = train_y[zip_it + 1]
            /\ zip_it' = zip_it + 1
            /\ tpc' = BodyOrder[1]
       ELSE /\ tpc' = "print"
            /\ UNCHANGED <<loop_x, loop_y, zip_it>>
    /\ UNCHANGED <<train_x, train_y, epoch_it, loop_e, label_t, encoder_value, los, grads,
                   updates, loss, log, losses>>
    /\ UNCHANGED <<dataVars, circVars>>

\* label = ms.Tensor(y, ms.int32).reshape((1))
MakeLabel ==
    /\ tpc = "label"
    /\ label_t' = <<loop_y>>
    /\ tpc' = StepAfter("label")
    /\ UNCHANGED <<train_x, train_y, epoch_it, loop_e, zip_it, loop_x, loop_y,
                   encoder_value, los, grads, updates, loss, log, losses>>
    /\ UNCHANGED <<dataVars, circVars>>

\* net.set_encoder_value(x)
SetEncoderValue ==
    /\ tpc = "set_encoder"
    /\ encoder_value' = loop_x
    /\ tpc' = StepAfter("set_encoder")
    /\ UNCHANGED <<train_x, train_y, epoch_it, loop_e, zip_it, loop_x, loop_y, label_t,
                   los, grads, updates, loss, log, losses>>
    /\ UNCHANGED <<dataVars, circVars>>

\* los, grads = grad_fn(label): the network runs on the value its encoder holds.
GradFn ==
    /\ tpc = "grad"
    /\ los' = [encoder |-> encoder_value, label |-> label_t, params |-> updates]
    /\ grads' = [encoder |-> encoder_value, label |-> label_t, params |-> updates]
    /\ tpc' = StepAfter("grad")
    /\ UNCHANGED <<train_x, train_y, epoch_it, loop_e, zip_it, loop_x, loop_y, label_t,
                   encoder_value, updates, loss, log, losses>>
    /\ UNCHANGED <<dataVars, circVars>>

\* optimizer(grads)
Optimizer ==
    /\ tpc = "optimizer"
    /\ updates' = updates + 1
    /\ tpc' = StepAfter("optimizer")
    /\ UNCHANGED <<train_x, train_y, epoch_it, loop_e, zip_it, loop_x, loop_y, label_t,
                   encoder_value, los, grads, loss, log, losses>>
    /\ UNCHANGED <<dataVars, circVars>>

\* loss += los
Accumulate ==
    /\ tpc = "accumulate"
    /\ loss' = Append(loss, los)
    /\ tpc' = StepAfter("accumulate")
    /\ UNCHANGED <<train_x, train_y, epoch_it, loop_e, zip_it, loop_x, loop_y, label_t,
                   encoder_value, los, grads, updates, log, losses>>
    /\ UNCHANGED <<dataVars, circVars>>

\* print(f'[epoch {e:02d}], loss: {loss.numpy() / len(train_x):.4f}')
PrintEpoch ==
    /\ tpc = "print"
    /\ log' = Append(log, [epoch |-> Format02d(loop_e),
                           loss |-> MeanLoss(loss, Len(train_x))])
    /\ tpc' = "append"
    /\ UNCHANGED <<train_x, train_y, epoch_it, loop_e, zip_it, loop_x, loop_y, label_t,
                   encoder_value, los, grads, updates, loss, losses>>
    /\ UNCHANGED <<dataVars, circVars>>

\* losses.append(loss.numpy() / len(train_x))
AppendLoss ==
    /\ tpc = "append"
    /\ losses' = Append(losses, MeanLoss(loss, Len(train_x)))
    /\ tpc' = "epoch"
    /\ UNCHANGED <<train_x, train_y, epoch_it, loop_e, zip_it, loop_x, loop_y, label_t,
                   encoder_value, los, grads, updates, loss, log>>
    /\ UNCHANGED <<dataVars, circVars>>

NextTrain ==
    \/ EpochLoop
    \/ SampleLoop
    \/ MakeLabel
    \/ SetEncoderValue
    \/ GradFn
    \/ Optimizer
    \/ Accumulate
    \/ PrintEpoch
    \/ AppendLoss

\* The script is one thread that runs each statement it reaches.
SpecTrain == InitTrain /\ [][NextTrain]_vars /\ WF_vars(NextTrain)

(***************************************************************************)
(* What the preprocessing claims speak of, stated on the corpus itself.    *)
(***************************************************************************)
\* A token is a maximal run of non-whitespace characters.
TokenStarts(s) ==
    {i \in DOMAIN s : s[i] \notin Whitespace /\ (i = 1 \/ s[i - 1] \in Whitespace)}

RECURSIVE TokenEnd(_, _)
TokenEnd(s, i) ==
    IF i = Len(s) \/ s[i + 1] \in Whitespace THEN i ELSE TokenEnd(s, i + 1)

TokenFrom(s, i) == SubSeq(s, i, TokenEnd(s, i))

CorpusTokens(s) == {TokenFrom(s, i) : i \in TokenStarts(s)}

NumTokens(s) == Cardinality(TokenStarts(s))

Returned == pc \in {"sampled", "trained"} \/ raised = "ValueError"

NotebookSentence ==
    Join(<< <<"I">>, <<"l", "o", "v", "e">>, <<"n", "a", "t", "u", "r", "a", "l">>,
            <<"l", "a", "n", "g", "u", "a", "g", "e">>,
            <<"p", "r", "o", "c", "e", "s", "s", "i", "n", "g">> >>)

\* C1: the dictionary has one entry per distinct whitespace-separated token of
\* the corpus, and maps the tokens one-to-one onto 0..n-1 in ascending sorted
\* order of the tokens.
C1_DictIsSortedBijection ==
    Returned =>
        LET T == CorpusTokens(corpus)
            n == Cardinality(T)
        IN  /\ DOMAIN word_dict = T
            /\ Cardinality(DOMAIN word_dict) = n
            /\ {word_dict[w] : w \in T} = 0..(n - 1)
            /\ \A a, b \in T : a # b => word_dict[a] # word_dict[b]
            /\ \A a, b \in T : StrLess(a, b) => word_dict[a] < word_dict[b]

\* C1 witness: the notebook's sentence gives the five ids of the cell output.
C1_Witness ==
    /\ Returned
    /\ corpus = NotebookSentence
    /\ Cardinality(DOMAIN word_dict) = 5
    /\ word_dict[<<"I">>] = 0
    /\ word_dict[<<"l", "a", "n", "g", "u", "a", "g", "e">>] = 1
    /\ word_dict[<<"l", "o", "v", "e">>] = 2
    /\ word_dict[<<"n", "a", "t", "u", "r", "a", "l">>] = 3
    /\ word_dict[<<"p", "r", "o", "c", "e", "s", "s", "i", "n", "g">>] = 4

\* C3: for window >= 1 a corpus of N tokens yields max(0, N - 2*window)
\* samples, and the call returns.
C3_SampleCount ==
    (pc # "start" /\ window >= 1) =>
        /\ raised # "IndexError"
        /\ Len(sampling) = Max(0, NumTokens(corpus) - 2 * window)

\* C3 witness: one sample for the five-token sentence with window 2.
C3_Witness ==
    /\ pc = "sampled"
    /\ corpus = NotebookSentence
    /\ window = 2
    /\ Len(sampling) = 1

\* C4: for window >= 1 sample k has the token at k+window as its center and the
\* 2*window tokens at k..k+2*window except k+window as its context, in corpus
\* order, and every position read is inside the token list.
C4_SampleContents ==
    (pc # "start" /\ window >= 1) =>
        LET tok == Split(corpus)
        IN  /\ raised # "IndexError"
            /\ \A k \in 0..(Len(sampling) - 1) :
                LET around == sampling[k + 1][1]
                    center == sampling[k + 1][2]
                IN  /\ k + 2 * window < Len(tok)
                    /\ center = tok[k + window + 1]
                    /\ Len(around) = 2 * window
                    /\ \A c \in 0..(window - 1) :
                        /\ around[c + 1] = tok[k + c + 1]
                        /\ around[window + c + 1] = tok[k + window + c + 2]

\* C4 witness: the notebook's sample, "natural" from its four neighbours.
C4_Witness ==
    /\ pc = "sampled"
    /\ window = 2
    /\ sampling =
        << << << <<"I">>, <<"l", "o", "v", "e">>,
                 <<"l", "a", "n", "g", "u", "a", "g", "e">>,
                 <<"p", "r", "o", "c", "e", "s", "s", "i", "n", "g">> >>,
              <<"n", "a", "t", "u", "r", "a", "l">> >> >>

\* C5: GenerateTrainData returns one row and one label per sample, in sample
\* order; a row is the concatenation, in context order, of equally wide blocks,
\* block c holding the bits of context word c's id least significant first
\* (pi for 1, 0 for 0); the label is the id of the sample's center word.
C5_TrainData ==
    pc = "trained" =>
        /\ Len(data_x) = Len(sampling)
        /\ Len(data_y) = Len(sampling)
        /\ \A k \in DOMAIN sampling :
            LET around == sampling[k][1]
                row == data_x[k]
                m == Len(around)
                L == IF m = 0 THEN 0 ELSE Len(row) \div m
            IN  /\ data_y[k] = word_dict[sampling[k][2]]
                /\ Len(row) = m * L
                /\ \A e \in DOMAIN row : row[e] \in {<<0, "pi">>, <<1, "pi">>}
                /\ \A c \in 0..(m - 1) :
                    /\ word_dict[around[c + 1]] < Pow2(L)
                    /\ \A j \in 0..(L - 1) :
                        row[c * L + j + 1] = <<Bit(word_dict[around[c + 1]], j), "pi">>

\* C5 witness: the notebook's cell output for its sentence.
C5_Witness ==
    /\ pc = "trained"
    /\ corpus = NotebookSentence
    /\ window = 2
    /\ data_x = << << <<0, "pi">>, <<0, "pi">>, <<0, "pi">>,
                      <<0, "pi">>, <<1, "pi">>, <<0, "pi">>,
                      <<1, "pi">>, <<0, "pi">>, <<0, "pi">>,
                      <<0, "pi">>, <<0, "pi">>, <<1, "pi">> >> >>
    /\ data_y = <<3>>

(***************************************************************************)
(* What the circuit claims speak of.                                       *)
(***************************************************************************)
\* The least q with 2^q >= n, for n >= 1.
LeastPow2Exponent(n) == CHOOSE q \in 0..n : Pow2(q) >= n /\ \A r \in 0..(q - 1) : Pow2(r) < n

\* A prefix with one '_' appended when it is non-empty and does not end in '_'.
Normalised(prefix) ==
    IF prefix = <<>> \/ prefix[Len(prefix)] = "_" THEN prefix ELSE Append(prefix, "_")

IsPrefixOf(a, b) == Len(a) <= Len(b) /\ SubSeq(b, 1, Len(a)) = a

\* C2: for n >= 1 qubits and a label below 2^n the angle vector has n entries,
\* entry j being pi exactly when bit j of the label is 1, and the encoder takes
\* the all-zero state to the basis state whose index is the label.
C2_EncodingRoundTrips ==
    (call.fn = "EncoderCell" /\ call.n_qubits >= 1 /\ call.label < Pow2(call.n_qubits)) =>
        /\ Len(result.label_array) = call.n_qubits
        /\ \A j \in 0..(call.n_qubits - 1) :
            result.label_array[j + 1] = <<Bit(call.label, j), "pi">>
        /\ result.label_in_state = call.label

\* C2 witness: the notebook's cell, label 2 on 3 qubits, binary label 010.
C2_Witness ==
    /\ call.fn = "EncoderCell"
    /\ call.n_qubits = 3
    /\ call.label = 2
    /\ result.label_bin = <<"0", "1", "0">>
    /\ result.encoder_params_names = << <<"e", "_", "0">>, <<"e", "_", "1">>, <<"e", "_", "2">> >>
    /\ result.label_in_state = 2

\* The Hamiltonian term of embedding dimension d: Z_j for the bits j set in d,
\* in ascending j.
RECURSIVE TermFactors(_, _)
TermFactors(d, j) ==
    IF Pow2(j) > d THEN <<>>
    ELSE (IF Bit(d, j) = 1 THEN << <<"Z">> \o Str(j) >> ELSE <<>>) \o TermFactors(d, j + 1)

TermOf(d) == Join(TermFactors(d, 0))

\* C7: GenerateEmbeddingHamiltonian(dims, n_qubits) returns dims distinct,
\* non-empty terms with coefficient 1.0, the d-th (from 1, in insertion order)
\* being the product of Z_j over the bits j set in d, in ascending j.
C7_HamiltonianTerms ==
    call.fn = "GenerateEmbeddingHamiltonian" =>
        /\ Len(result) = call.dims
        /\ \A d \in 1..call.dims :
            /\ result[d] = <<TermOf(d), "1.0">>
            /\ result[d][1] # <<>>
        /\ \A d, e \in DOMAIN result : d # e => result[d][1] # result[e][1]

\* C7 witness: the notebook's cell output for dims = 5.
C7_Witness ==
    /\ call.fn = "GenerateEmbeddingHamiltonian"
    /\ call.dims = 5
    /\ result = << << <<"Z", "0">>, "1.0" >>,
                   << <<"Z", "1">>, "1.0" >>,
                   << <<"Z", "0", " ", "Z", "1">>, "1.0" >>,
                   << <<"Z", "2">>, "1.0" >>,
                   << <<"Z", "0", " ", "Z", "2">>, "1.0" >> >>

\* C8: GenerateEncoderCircuit(n_qubits, prefix) is n_qubits RX gates, gate i on
\* qubit i with the parameter name P + str(i), P the normalised prefix.
C8_EncoderCircuit ==
    call.fn = "GenerateEncoderCircuit" =>
        /\ Len(result) = call.n_qubits
        /\ \A i \in 0..(call.n_qubits - 1) :
            /\ result[i + 1].name = "RX"
            /\ result[i + 1].obj = <<i>>
            /\ result[i + 1].ctrl = <<>>
            /\ result[i + 1].param = Normalised(call.prefix) \o Str(i)

\* C8 witness: prefix 'e_' gives e_0, e_1, e_2, the names prefix 'e' gives in
\* the notebook's cell output.
C8_Witness ==
    /\ call.fn = "GenerateEncoderCircuit"
    /\ call.n_qubits = 3
    /\ call.prefix = <<"e", "_">>
    /\ ParamsName(result) = << <<"e", "_", "0">>, <<"e", "_", "1">>, <<"e", "_", "2">> >>
    /\ result = GenerateEncoderCircuit(3, <<"e">>)

\* The shape the ansatz claim describes, given the number cx(l) of controlled-X
\* gates it states for layer l.
RECURSIVE UnitOffset(_, _, _)
UnitOffset(cx(_), n, l) == IF l <= 0 THEN 0 ELSE UnitOffset(cx, n, l - 1) + n + cx(l - 1)

AnsatzShape(cx(_)) ==
    LET n == call.n_qubits
        P == Normalised(call.prefix)
    IN  /\ Len(result) = UnitOffset(cx, n, call.layers)
        /\ \A l \in 0..(call.layers - 1) :
            LET base == UnitOffset(cx, n, l)
            IN  /\ \A i \in 0..(n - 1) :
                    /\ result[base + i + 1].name = "RY"
                    /\ result[base + i + 1].obj = <<i>>
                    /\ result[base + i + 1].ctrl = <<>>
                    /\ result[base + i + 1].param = P \o Str(l) \o <<"_">> \o Str(i)
                /\ \A m \in 0..(cx(l) - 1) :
                    LET g == result[base + n + m + 1]
                        i == (l % 2) + 2 * m
                    IN  /\ g.name = "X"
                        /\ g.ctrl = <<i>>
                        /\ g.obj = <<i + 1>>
                        /\ i >= 0
                        /\ i + 1 < n
                /\ \A m1, m2 \in 0..(cx(l) - 1) :
                    m1 # m2 =>
                        LET g1 == result[base + n + m1 + 1]
                            g2 == result[base + n + m2 + 1]
                        IN  (Range(g1.obj) \cup Range(g1.ctrl))
                                \cap (Range(g2.obj) \cup Range(g2.ctrl)) = {}

CXCountFloor(l) == (call.n_qubits - (l % 2)) \div 2

CXCountAmended(l) == IF call.n_qubits >= 1 THEN (call.n_qubits - (l % 2)) \div 2 ELSE 0

\* C9 as stated: layer l has floor((n_qubits - l mod 2) / 2) controlled-X gates,
\* whatever n_qubits is.
C9_AnsatzAsStated ==
    call.fn = "GenerateAnsatzCircuit" => AnsatzShape(CXCountFloor)

\* C9 amended: GenerateAnsatzCircuit is `layers` units, unit l being one RY gate
\* on every qubit (parameter prefix_l_i) followed by controlled-X gates on the
\* pairs (i, i+1), i = l mod 2, l mod 2 + 2, ..., i+1 < n_qubits, pairwise
\* disjoint and inside 0..n_qubits-1; unit l has floor((n_qubits - l mod 2) / 2)
\* of them when n_qubits >= 1 and none when n_qubits = 0.
C9_AnsatzCircuit ==
    call.fn = "GenerateAnsatzCircuit" => AnsatzShape(CXCountAmended)

\* C9 witness: the notebook's cell output for GenerateAnsatzCircuit(5, 2, 'a'):
\* layer 0 couples (0, 1) and (2, 3), layer 1 couples (1, 2) and (3, 4).
C9_Witness ==
    /\ call.fn = "GenerateAnsatzCircuit"
    /\ call.n_qubits = 5
    /\ call.layers = 2
    /\ call.prefix = <<"a">>
    /\ Len(result) = 14
    /\ result[1].param = <<"a", "_", "0", "_", "0">>
    /\ result[6].name = "X" /\ result[6].obj = <<1>> /\ result[6].ctrl = <<0>>
    /\ result[7].name = "X" /\ result[7].obj = <<3>> /\ result[7].ctrl = <<2>>
    /\ result[8].param = <<"a", "_", "1", "_", "0">>
    /\ result[13].name = "X" /\ result[13].obj = <<2>> /\ result[13].ctrl = <<1>>
    /\ result[14].name = "X" /\ result[14].obj = <<4>> /\ result[14].ctrl = <<3>>

\* C10: the circuit of QEmbedding starts with a Hadamard gate on every qubit,
\* followed by exactly 2*window blocks; block w is the encoder gates of context
\* word w and then the ansatz gates of ansatz w, so within a block no ansatz
\* gate precedes an encoder gate and no gate of block w+1 precedes one of
\* block w.
C10_EmbeddingLayout ==
    call.fn = "QEmbedding" =>
        LET n == LeastPow2Exponent(call.num_embedding)
            A == Len(GenerateAnsatzCircuit(n, call.layers, <<>>))
            B == n + A
        IN  /\ Len(result) = n + 2 * call.window * B
            /\ \A i \in 0..(n - 1) :
                /\ result[i + 1].name = "H"
                /\ result[i + 1].obj = <<i>>
            /\ \A w \in 0..(2 * call.window - 1) :
                /\ \A o \in 0..(n - 1) :
                    LET g == result[n + w * B + o + 1]
                    IN  /\ g.role = "encoder"
                        /\ g.name = "RX"
                        /\ g.obj = <<o>>
                        /\ g.param = <<"E", "n", "c", "o", "d", "e", "r", "_">>
                                        \o Str(w) \o <<"_">> \o Str(o)
                /\ \A o \in n..(B - 1) :
                    LET g == result[n + w * B + o + 1]
                    IN  /\ g.role = "ansatz"
                        /\ g.name \in {"RY", "X"}
                        /\ g.param # <<>> =>
                            IsPrefixOf(<<"A", "n", "s", "a", "t", "z", "_">>
                                            \o Str(w) \o <<"_">>, g.param)

\* C10 witness: window 2 gives four encoder and four ansatz blocks behind the
\* Hadamard gates.
C10_Witness ==
    /\ call.fn = "QEmbedding"
    /\ call.window = 2
    /\ call.num_embedding = 5
    /\ call.layers = 2
    /\ result[1].name = "H"
    /\ result[4].role = "encoder"
    /\ Cardinality({SubSeq(g.param, 1, 8) : g \in {x \in Range(result) : x.role = "ansatz" /\ x.param # <<>>}}) = 4
    /\ Cardinality({SubSeq(g.param, 1, 9) : g \in {x \in Range(result) : x.role = "encoder"}}) = 4

(***************************************************************************)
(* The feature rows against the circuit they feed.                         *)
(***************************************************************************)
EncoderGates(circ) == SelectSeq(circ, LAMBDA g : g.role = "encoder")

\* C6: for a dictionary of n >= 1 words and window >= 1, GenerateTrainData and
\* QEmbedding use the same qubit count q, the least q with 2^q >= n, and every
\* feature row has 2*window*q entries, one per encoder parameter of the circuit
\* of QEmbedding(n, _, window, _), entry w*q + j feeding the RX gate of context
\* word w on qubit j.
C6_RowsMatchEncoder ==
    (pc = "trained" /\ window >= 1) =>
        LET n == Cardinality(DOMAIN word_dict)
            q == TrainQubits(word_dict)
        IN  /\ q = EmbeddingQubits(n)
            /\ q = LeastPow2Exponent(n)
            /\ \A layers \in 0..1 :
                LET enc == EncoderGates(QEmbedding(n, 1, window, layers))
                IN  \A k \in DOMAIN data_x :
                        /\ Len(data_x[k]) = 2 * window * q
                        /\ Len(data_x[k]) = Len(enc)
                        /\ \A w \in 0..(2 * window - 1) :
                            \A j \in 0..(q - 1) :
                                /\ enc[w * q + j + 1].name = "RX"
                                /\ enc[w * q + j + 1].obj = <<j>>
                                /\ enc[w * q + j + 1].param =
                                    <<"E", "n", "c", "o", "d", "e", "r", "_">>
                                        \o Str(w) \o <<"_">> \o Str(j)

(***************************************************************************)
(* The training loop.                                                      *)
(***************************************************************************)
\* The statements of the loop body that have run for the current sample.
InBody == tpc \in {"label", "set_encoder", "grad", "optimizer", "accumulate"}

\* C11: for every epoch and sample the encoder is set to x, then the loss and
\* gradient are evaluated for y, then the optimizer runs: the gradient the
\* optimizer applies was evaluated on the row and the label of the current
\* sample and on the parameters as the previous update left them, and the
\* samples are visited once per epoch in data order.
C11_TrainingOrder ==
    /\ tpc = "grad" => encoder_value = train_x[zip_it]
    /\ tpc = "optimizer" =>
        /\ grads.encoder = train_x[zip_it]
        /\ grads.label = <<train_y[zip_it]>>
        /\ grads.params = updates
        /\ updates = loop_e * Len(train_x) + (zip_it - 1)
    /\ tpc = "accumulate" => updates = loop_e * Len(train_x) + zip_it
    /\ InBody =>
        /\ zip_it \in 1..Len(train_x)
        /\ loop_x = train_x[zip_it]
        /\ loop_y = train_y[zip_it]
    /\ tpc \in {"sample", "print", "append"} =>
        /\ Len(loss) = zip_it
        /\ \A k \in DOMAIN loss :
            /\ loss[k].encoder = train_x[k]
            /\ loss[k].label = <<train_y[k]>>
            /\ loss[k].params = loop_e * Len(train_x) + (k - 1)
    /\ tpc \in {"print", "append"} => zip_it = Len(train_x)

\* C11 witness: in the second epoch the gradient for the second of two samples
\* with different rows is about to be applied, evaluated on the second row.
C11_Witness ==
    /\ tpc = "optimizer"
    /\ loop_e = 1
    /\ zip_it = 2
    /\ train_x[1] # train_x[2]
    /\ train_y[1] # train_y[2]
    /\ grads.encoder = train_x[2]
    /\ grads.label = <<train_y[2]>>

\* The epoch number as the log line shows it.
TwoDigits(n) == IF n < 10 THEN <<"0">> \o Str(n) ELSE Str(n)

\* C12: the training loop terminates, having made n_epochs * len(train_x)
\* optimizer updates, printed one loss line per epoch in increasing epoch order
\* and appended one entry to losses at the end of each epoch, so that losses
\* ends with n_epochs = 30 entries.
C12_TrainingTerminates ==
    /\ <>(tpc = "done")
    /\ [](Len(losses) = epoch_it - (IF tpc \in {"epoch", "done"} THEN 0 ELSE 1))
    /\ [](Len(log) = Len(losses) + (IF tpc = "append" THEN 1 ELSE 0))
    /\ [](\A k \in DOMAIN log : log[k].epoch = TwoDigits(k - 1))
    /\ [](tpc = "done" =>
            /\ updates = n_epochs * Len(train_x)
            /\ Len(log) = n_epochs
            /\ Len(losses) = n_epochs
            /\ Len(losses) = 30
            /\ \A k \in DOMAIN losses : Len(losses[k].sum) = Len(train_x))

\* C12 witness: the loop has ended on two samples after 60 updates, with 30
\* entries in losses and the last line printed for epoch 29.
C12_Witness ==
    /\ tpc = "done"
    /\ Len(train_x) = 2
    /\ updates = 60
    /\ Len(losses) = 30
    /\ Len(log) = 30
    /\ log[1].epoch = <<"0", "0">>
    /\ log[30].epoch = <<"2", "9">>

=============================================================================
